---- MODULE Spec2Model ----
(***************************************************************************)
(* The admission pipeline of pq-guestbook (src/main.go): the /api/post     *)
(* handler with its replay table, its token-bucket rate limiter and the    *)
(* message ledger, and the /api/messages listing handler.                  *)
(*                                                                         *)
(* Strings are sequences of one-character tokens ("SP" is a space, "LF" a  *)
(* line feed).  Time is the server's wall clock, counted in whole seconds  *)
(* since an arbitrary origin; submission timestamps are in milliseconds.   *)
(* Token balances are counted in quarter tokens, which is exact because    *)
(* the refill rate is 0.25 tokens per second and the clock moves in whole  *)
(* seconds.                                                                *)
(***************************************************************************)
EXTENDS Integers, Sequences, FiniteSets, TLC

VARIABLES
    clock,        \* time.Now(), in seconds
    messages,     \* var messages []Message (newest first)
    seen,         \* var seen map[string]map[int64]bool, as a set of <<hex key, ts>>
    rateLimits,   \* var rateLimits map[string]*rateInfo
    replayMu,     \* owner of replayMu, or 0
    rateMu,       \* owner of rateMu, or 0
    muWriter,     \* owner of mu.Lock, or 0
    muReaders,    \* listings holding mu.RLock
    reqs,         \* the /api/post requests received so far, in arrival order
    lists,        \* the /api/messages requests received so far
    admitLog,     \* history: the append steps, oldest first
    canon         \* the canonicalization bench: two triples and their payloads

vars == <<clock, messages, seen, rateLimits, replayMu, rateMu, muWriter,
          muReaders, reqs, lists, admitLog, canon>>

----------------------------------------------------------------------------
(* Bounds of the model *)

MaxReq == 3          \* submissions per run of Spec
MaxClock == 1        \* seconds the clock may advance in Spec
MaxList == 1         \* listing requests per run
MaxInFlight == 2     \* submissions being handled at once
MaxQuotaReq == 12    \* submissions per run of SpecQuota
MaxQuotaClock == 4   \* seconds the clock may advance in SpecQuota
MaxStrLen == 3       \* length of the strings of the canonicalization bench

----------------------------------------------------------------------------
(* Program constants *)

maxTokens == 8            \* burst
RefillPeriod == 4         \* 1 / refillRate: seconds per token
FreshWindow == 15000      \* ms
maxAuthorLen == 80
maxContentLen == 2000
MaxKeyBytes == 5000
MLDSA44PublicKeySize == 1312
MLDSA65PublicKeySize == 1952
MLDSA87PublicKeySize == 2592

\* Token balances are kept in units of 1/RefillPeriod token.
TokenUnit == RefillPeriod
maxTokenUnits == maxTokens * TokenUnit

----------------------------------------------------------------------------
(* Strings *)

Min(a, b) == IF a < b THEN a ELSE b

Space == {"SP", "LF"}

RECURSIVE TrimLeft(_)
TrimLeft(s) ==
    IF s # <<>> /\ Head(s) \in Space THEN TrimLeft(Tail(s)) ELSE s

RECURSIVE TrimRight(_)
TrimRight(s) ==
    IF s # <<>> /\ s[Len(s)] \in Space
    THEN TrimRight(SubSeq(s, 1, Len(s) - 1))
    ELSE s

\* strings.TrimSpace
TrimSpace(s) == TrimRight(TrimLeft(s))

Digit(d) == <<"0", "1", "2", "3", "4", "5", "6", "7", "8", "9">>[d + 1]

RECURSIVE DecNat(_)
DecNat(n) == IF n < 10 THEN <<Digit(n)>> ELSE DecNat(n \div 10) \o <<Digit(n % 10)>>

\* fmt's %d
Dec(n) == IF n < 0 THEN <<"-">> \o DecNat(-n) ELSE DecNat(n)

\* fmt.Sprintf("%s\n%s\n%d", author, content, ts)
canonicalPayload(author, content, ts) ==
    author \o <<"LF">> \o content \o <<"LF">> \o Dec(ts)

Rep(c, n) == [k \in 1..n |-> c]

----------------------------------------------------------------------------
(* Keys, signatures and their wire encoding *)

\* A byte string is kept as its length and an abstract of its content: for a
\* public key, `body` names the key and `parses` is what UnmarshalBinary
\* makes of it; for a signature, `signer` names the key that made it (0: no
\* key did) and `over` is the payload it was made over.
Key(size, body, parses) == [size |-> size, body |-> body, parses |-> parses]

Sig(size, signer, over) == [size |-> size, signer |-> signer, over |-> over]

\* The signer's side: sk.Sign over the payload.
Sign(key, payload) == Sig(key.size + 1108, key.body, payload)

\* mldsaNN.Verify(&pub, canonical, nil, sigBytes): true exactly for a
\* signature made with pub's private key over these bytes.
Verify(pub, payload, sig) == sig.signer = pub.body /\ sig.over = payload

\* base64.RawStdEncoding: a string is either the encoding of some bytes or
\* not base64 at all.
B64(bytes) == [wellFormed |-> TRUE, bytes |-> bytes]

NotB64(bytes) == [wellFormed |-> FALSE, bytes |-> bytes]

DecodeString(s) == [err |-> ~s.wellFormed, bytes |-> s.bytes]

\* hex.EncodeToString: two characters per byte, determined by the bytes.
HexEncode(bytes) == [chars |-> 2 * bytes.size, of |-> bytes.body]

\* deviceIDFromUA: the first 8 bytes of HMAC-SHA256(rateLimitSecret, ua), in
\* hex.  The keyed hash is a fixed table over the user agents of the model.
deviceIDFromUA(ua) ==
    CASE ua = "ua1" -> "9f3c51d207ab44e1"
      [] ua = "ua2" -> "03be7a9915c06d2f"
      [] OTHER -> "c41ad08e6b7735f0"

Message(author, content, ts, algo, sig, pubkey, ua) ==
    [Author |-> author, Content |-> content, Timestamp |-> ts, Algo |-> algo,
     Signature |-> sig, PubKey |-> pubkey, UserAgent |-> ua]

----------------------------------------------------------------------------
(* The steps of the /api/post handler that touch no shared state *)

\* Lines 171-172: the handler trims author and content in place.
\* Sanitize without the trimming.
Sanitize_Untrimmed(raw) == raw

\* Lines 171-172.
Sanitize(raw) ==
    [raw EXCEPT !.Author = TrimSpace(raw.Author), !.Content = TrimSpace(raw.Content)]

\* Lines 174-181.
StructuralError(m) ==
    IF m.Author = <<>> \/ m.Content = <<>> THEN "author/content required"
    ELSE IF Len(m.Author) > maxAuthorLen \/ Len(m.Content) > maxContentLen
         THEN "message too long"
    ELSE ""

\* DecodeError without the 5000-byte bounds.
DecodeError_Unbounded(m) ==
    IF DecodeString(m.PubKey).err THEN "invalid pubkey"
    ELSE IF DecodeString(m.Signature).err THEN "invalid signature"
    ELSE ""

\* Lines 184-193.
DecodeError(m) ==
    LET pub == DecodeString(m.PubKey)
        sig == DecodeString(m.Signature)
    IN  IF pub.err \/ pub.bytes.size > MaxKeyBytes THEN "invalid pubkey"
        ELSE IF sig.err \/ sig.bytes.size > MaxKeyBytes THEN "invalid signature"
        ELSE ""

pubBytes(m) == DecodeString(m.PubKey).bytes

sigBytes(m) == DecodeString(m.Signature).bytes

\* Fresh with the test for timestamps ahead of the clock left out.
Fresh_OnlyOld(nowMs, ts) ==
    LET drift == nowMs - ts
    IN  ~(drift > FreshWindow)

\* Lines 196-198: the drift test, nowMs being time.Now().UnixMilli().
Fresh(nowMs, ts) ==
    LET drift == nowMs - ts
    IN  ~(drift < -FreshWindow \/ drift > FreshWindow)

\* The freshness policy: the timestamp is at most FreshWindow ms away from
\* the clock, either way.
WithinWindow(nowMs, ts) ==
    (IF nowMs >= ts THEN nowMs - ts ELSE ts - nowMs) <= FreshWindow

\* Lines 170-201: everything up to the replay check; "" lets the request on.
PreCheck(m, nowMs) ==
    IF StructuralError(m) # "" THEN StructuralError(m)
    ELSE IF DecodeError(m) # "" THEN DecodeError(m)
    ELSE IF ~Fresh(nowMs, m.Timestamp) THEN "timestamp not fresh"
    ELSE ""

SupportedSizes == {MLDSA44PublicKeySize, MLDSA65PublicKeySize, MLDSA87PublicKeySize}

\* VerifyOutcome with the level taken from the declared hint when it names
\* one.
VerifyOutcome_TrustsHint(m) ==
    LET pub == pubBytes(m)
        size == CASE m.Algo = "ML-DSA-44" -> MLDSA44PublicKeySize
                  [] m.Algo = "ML-DSA-65" -> MLDSA65PublicKeySize
                  [] m.Algo = "ML-DSA-87" -> MLDSA87PublicKeySize
                  [] OTHER -> pub.size
    IN  IF size \notin SupportedSizes \/ size # pub.size THEN "unsupported ML-DSA level"
        ELSE IF ~pub.parses THEN "invalid pubkey"
        ELSE IF ~Verify(pub, canonicalPayload(m.Author, m.Content, m.Timestamp), sigBytes(m))
             THEN "invalid ML-DSA signature"
        ELSE ""

\* VerifyOutcome without lines 251-254, the test of `valid`.
VerifyOutcome_IgnoresValid(m) ==
    LET pub == pubBytes(m)
    IN  IF pub.size \notin SupportedSizes THEN "unsupported ML-DSA level"
        ELSE IF ~pub.parses THEN "invalid pubkey"
        ELSE ""

\* Lines 217-254: canonical payload, the switch on the key length, the
\* verification; "" lets the request on to the store.
VerifyOutcome(m) ==
    LET pub == pubBytes(m)
        canonical == canonicalPayload(m.Author, m.Content, m.Timestamp)
    IN  IF pub.size \notin SupportedSizes THEN "unsupported ML-DSA level"
        ELSE IF ~pub.parses THEN "invalid pubkey"
        ELSE IF ~Verify(pub, canonical, sigBytes(m)) THEN "invalid ML-DSA signature"
        ELSE ""

\* The primitives lines 217-254 invoke: Verify runs only past the switch and
\* the key's unmarshalling.
VerifyInvokes(m) ==
    IF pubBytes(m).size \in SupportedSizes /\ pubBytes(m).parses
    THEN {"mldsa.Verify"} ELSE {}

----------------------------------------------------------------------------
(* allowDevice, lines 86-110, on the bucket it finds (NoBucket: none) *)

NoBucket == [Tokens |-> -1, LastRefill |-> -1]

\* allowDevice without the test of lines 104-106: a token is always taken.
allowDevice_NoFloor(ri, now) ==
    IF ri = NoBucket
    THEN [ok |-> TRUE, bucket |-> [Tokens |-> maxTokenUnits, LastRefill |-> now]]
    ELSE LET elapsed == now - ri.LastRefill
             tokens == Min(maxTokenUnits, ri.Tokens + elapsed * (TokenUnit \div RefillPeriod))
         IN  [ok |-> TRUE, bucket |-> [Tokens |-> tokens - TokenUnit, LastRefill |-> now]]

\* allowDevice rejecting before the refilled balance is stored (line 103
\* after the return of 105).
allowDevice_RejectForfeits(ri, now) ==
    IF ri = NoBucket
    THEN [ok |-> TRUE, bucket |-> [Tokens |-> maxTokenUnits, LastRefill |-> now]]
    ELSE LET elapsed == now - ri.LastRefill
             tokens == Min(maxTokenUnits, ri.Tokens + elapsed * (TokenUnit \div RefillPeriod))
         IN  IF tokens < TokenUnit
             THEN [ok |-> FALSE, bucket |-> [Tokens |-> ri.Tokens, LastRefill |-> now]]
             ELSE [ok |-> TRUE,
                   bucket |-> [Tokens |-> tokens - TokenUnit, LastRefill |-> now]]

\* Result: whether the request passes, and the bucket as the call leaves it.
allowDevice(ri, now) ==
    IF ri = NoBucket
    THEN [ok |-> TRUE, bucket |-> [Tokens |-> maxTokenUnits, LastRefill |-> now]]
    ELSE LET elapsed == now - ri.LastRefill
             tokens == Min(maxTokenUnits, ri.Tokens + elapsed * (TokenUnit \div RefillPeriod))
         IN  IF tokens < TokenUnit
             THEN [ok |-> FALSE, bucket |-> [Tokens |-> tokens, LastRefill |-> now]]
             ELSE [ok |-> TRUE,
                   bucket |-> [Tokens |-> tokens - TokenUnit, LastRefill |-> now]]

Bucket(rl, id) == IF id \in DOMAIN rl THEN rl[id] ELSE NoBucket

----------------------------------------------------------------------------
(* The submissions the clients of the model send *)

A == <<"a">>

C == <<"c">>

K44 == Key(MLDSA44PublicKeySize, 1, TRUE)

K65 == Key(MLDSA65PublicKeySize, 2, TRUE)

K87 == Key(MLDSA87PublicKeySize, 3, TRUE)

KOdd == Key(32, 4, TRUE)                         \* no ML-DSA level has this size

KMalformed == Key(MLDSA44PublicKeySize, 5, FALSE)   \* UnmarshalBinary fails

KHuge == Key(MaxKeyBytes + 1, 6, TRUE)

\* What an honest client sends: the signature is over the canonical payload
\* of the fields as sent.
Signed(author, content, ts, key, ua) ==
    Message(author, content, ts, "ML-DSA", B64(Sign(key, canonicalPayload(author, content, ts))),
            B64(key), ua)

Base == Signed(A, C, 0, K44, "ua1")

Submissions ==
    { Base,
      [Base EXCEPT !.Content = <<"d">>],                  \* content changed after signing
      [Base EXCEPT !.UserAgent = "ua2"],
      Signed(A, <<"d">>, 0, K44, "ua1"),                  \* another message, same key and ts
      Signed(A, C, FreshWindow + 1000, K44, "ua1"),       \* ahead of the clock at 0
      Signed(A, C, -FreshWindow, K44, "ua1"),             \* behind the clock at 1
      [Signed(A, C, 0, K65, "ua1") EXCEPT !.Author = <<"SP", "a">>,
                                          !.Content = <<"c", "LF">>],
      Signed(A, C, 0, K87, "ua2"),
      Signed(A, C, 0, KOdd, "ua1"),
      Signed(A, C, 0, KMalformed, "ua1"),
      [Base EXCEPT !.Author = <<"SP">>],
      [Base EXCEPT !.Content = Rep("c", maxContentLen + 1)],
      Signed(A, C, 0, KHuge, "ua1") }

\* Properly signed submissions under three keys, and one that is not.
ListSubmissions ==
    { Base,
      Signed(A, C, 0, K65, "ua1"),
      Signed(A, C, 0, K87, "ua2"),
      [Base EXCEPT !.Content = <<"d">>] }

\* Authors and contents at, over and under the length bounds, with and
\* without white space around and inside them.
BoundSubmissions ==
    { Signed(Rep("a", maxAuthorLen), C, 0, K44, "ua1"),
      Signed(Rep("a", maxAuthorLen + 1), C, 0, K44, "ua1"),
      Signed(A, Rep("c", maxContentLen), 0, K65, "ua1"),
      Signed(A, Rep("c", maxContentLen + 1), 0, K65, "ua1"),
      [Signed(Rep("a", maxAuthorLen), C, 0, K87, "ua2")
         EXCEPT !.Author = <<"SP">> \o Rep("a", maxAuthorLen) \o <<"LF">>],
      Signed(<<"SP", "a">>, C, 1, K44, "ua1"),            \* signed with the space
      Signed(<<"a", "SP", "a">>, <<"c", "LF", "c">>, 2, K44, "ua1"),
      [Base EXCEPT !.Author = <<"SP", "LF">>] }

\* The hints a client may declare in the algo field.
Hints == {"ML-DSA", "ML-DSA-87", ""}

WithHint(m, h) == [m EXCEPT !.Algo = h]

\* Proper, tampered and unsupported submissions under every hint.
AlgoSubmissions ==
    { WithHint(m, h) : m \in { Base,
                               [Base EXCEPT !.Content = <<"d">>],
                               Signed(A, C, 0, K87, "ua2"),
                               Signed(A, C, 0, KOdd, "ua1") },
                       h \in Hints }

\* One device: first a burst of submissions whose content was changed after
\* signing, one per millisecond, then properly signed ones, each either new
\* or the previous one sent again.
QuotaSub(n) ==
    IF n > maxTokens + 1
    THEN Signed(A, C, n, K44, "ua1")
    ELSE [Signed(A, C, n, K44, "ua1") EXCEPT !.Content = <<"d">>]

QuotaSubmissions(n) ==
    {QuotaSub(n)} \cup (IF n > maxTokens + 2 THEN {QuotaSub(n - 1)} ELSE {})

----------------------------------------------------------------------------
(* State *)

NoTriple == [Author |-> <<>>, Content |-> <<>>, Timestamp |-> 0]

NoCanon == [a |-> NoTriple, b |-> NoTriple, pa |-> <<>>, pb |-> <<>>, done |-> FALSE]

InitServer ==
    /\ clock = 0
    /\ messages = <<>>
    /\ seen = {}
    /\ rateLimits = <<>>
    /\ replayMu = 0
    /\ rateMu = 0
    /\ muWriter = 0
    /\ muReaders = {}
    /\ reqs = <<>>
    /\ lists = <<>>
    /\ admitLog = <<>>

Init == InitServer /\ canon = NoCanon

NowMs == clock * 1000

\* The replay table keyed by the declared user agent as well.
ReplayKey_PerDevice(m) == <<HexEncode(pubBytes(m)), m.Timestamp, m.UserAgent>>

\* Lines 62-70: seen[hex(pubkey)][ts]
ReplayKey(m) == <<HexEncode(pubBytes(m)), m.Timestamp>>

InFlight == {i \in DOMAIN reqs : reqs[i].pc # "done"}

\* A lock that excludes nobody.
CanLock_Always(owner) == TRUE

\* sync.Mutex: Lock goes through when nobody holds it.
CanLock(owner) == owner = 0

\* An Unlock that leaves the lock with its holder.
Unlock_Never(holder) == holder

\* sync.Mutex.Unlock and RWMutex.Unlock: the lock is free again.
Unlock(holder) == 0

\* A write lock that excludes nobody.
CanWLock_Always(writer, readers) == TRUE

\* sync.RWMutex: Lock needs no writer and no reader, RLock no writer.
CanWLock(writer, readers) == writer = 0 /\ readers = {}

CanRLock(writer) == writer = 0

Finish(r, outcome) == [r EXCEPT !.pc = "done", !.outcome = outcome]

----------------------------------------------------------------------------
(* /api/post *)

\* Lines 148-201: a request arrives and is parsed, trimmed, bounded and
\* checked for freshness.
Receive(inputs, max) ==
    /\ Len(reqs) < max
    /\ Cardinality(InFlight) < MaxInFlight
    /\ \E raw \in inputs :
         LET m == Sanitize(raw)
             err == PreCheck(m, NowMs)
             r == [m |-> m, pc |-> "replay", outcome |-> "", dup |-> FALSE,
                   now |-> -1, ri |-> NoBucket, old |-> <<>>,
                   gates |-> IF WithinWindow(NowMs, m.Timestamp) THEN {"fresh"} ELSE {},
                   invoked |-> {}, spent |-> FALSE,
                   rivals |-> {i \in InFlight : ReplayKey(reqs[i].m) = ReplayKey(m)}]
         IN  reqs' = Append(reqs, IF err = "" THEN r ELSE Finish(r, err))
    /\ UNCHANGED <<clock, messages, seen, rateLimits, replayMu, rateMu, muWriter,
                   muReaders, lists, admitLog, canon>>

\* replaySeen, lines 59-67: take replayMu and look the pair up.
ReplayLock(i) ==
    /\ reqs[i].pc = "replay"
    /\ CanLock(replayMu)
    /\ replayMu' = i
    /\ reqs' = [reqs EXCEPT ![i].pc = "replayHeld",
                            ![i].dup = ReplayKey(reqs[i].m) \in seen,
                            ![i].gates = @ \cup (IF ReplayKey(reqs[i].m) \in seen
                                                 THEN {} ELSE {"new"})]
    /\ UNCHANGED <<clock, messages, seen, rateLimits, rateMu, muWriter,
                   muReaders, lists, admitLog, canon>>

\* Recorded without line 70.
Recorded_Forgets(table, key) == table

\* Line 70: seen[key][ts] = true
Recorded(table, key) == table \cup {key}

\* replaySeen, lines 67-72, and the handler's lines 204-207: record the pair
\* unless it was found, release replayMu, reject a replay.
ReplayRecord(i) ==
    /\ reqs[i].pc = "replayHeld"
    /\ replayMu' = Unlock(i)
    /\ IF reqs[i].dup
       THEN /\ seen' = seen
            /\ reqs' = [reqs EXCEPT ![i] = Finish(@, "replay detected")]
       ELSE /\ seen' = Recorded(seen, ReplayKey(reqs[i].m))
            /\ reqs' = [reqs EXCEPT ![i].pc = "rate"]
    /\ UNCHANGED <<clock, messages, rateLimits, rateMu, muWriter,
                   muReaders, lists, admitLog, canon>>

\* The bucket chosen by the public key.
DeviceOf_ByKey(m) == deviceIDFromUA(IF pubBytes(m).body = K44.body THEN "ua1" ELSE "ua2")

\* Line 210: deviceID := deviceIDFromUA(m.UserAgent)
DeviceOf(m) == deviceIDFromUA(m.UserAgent)

\* Line 210 and allowDevice, lines 87-91: derive the device id, take rateMu,
\* read the clock and the bucket.
RateLock(i) ==
    /\ reqs[i].pc = "rate"
    /\ CanLock(rateMu)
    /\ rateMu' = i
    /\ reqs' = [reqs EXCEPT ![i].pc = "rateHeld",
                            ![i].now = clock,
                            ![i].ri = Bucket(rateLimits, DeviceOf(reqs[i].m)),
                            ![i].invoked = @ \cup {"hmac.New"}]
    /\ UNCHANGED <<clock, messages, seen, rateLimits, replayMu, muWriter,
                   muReaders, lists, admitLog, canon>>

\* allowDevice, lines 92-110, and the handler's lines 211-214: refill,
\* consume, release rateMu, reject on an empty bucket.
RateUpdate(i) ==
    /\ reqs[i].pc = "rateHeld"
    /\ rateMu' = Unlock(i)
    /\ LET id == DeviceOf(reqs[i].m)
           res == allowDevice(reqs[i].ri, reqs[i].now)
       IN  /\ rateLimits' = (id :> res.bucket) @@ rateLimits
           /\ reqs' = IF res.ok
                      THEN [reqs EXCEPT ![i].pc = "verify", ![i].ri = NoBucket,
                                        ![i].gates = @ \cup {"quota"},
                                        ![i].spent = reqs[i].ri # NoBucket]
                      ELSE [reqs EXCEPT ![i] = Finish([@ EXCEPT !.ri = NoBucket],
                                                      "rate limit exceeded")]
    /\ UNCHANGED <<clock, messages, seen, replayMu, muWriter, muReaders, lists,
                   admitLog, canon>>

\* Lines 216-254: canonical payload and ML-DSA verification.
VerifyStep(i) ==
    /\ reqs[i].pc = "verify"
    /\ LET out == VerifyOutcome(reqs[i].m)
           r == [reqs[i] EXCEPT !.invoked = @ \cup VerifyInvokes(reqs[i].m)]
       IN  reqs' = [reqs EXCEPT ![i] = IF out = "" THEN [r EXCEPT !.pc = "store"]
                                       ELSE Finish(r, out)]
    /\ UNCHANGED <<clock, messages, seen, rateLimits, replayMu, rateMu, muWriter,
                   muReaders, lists, admitLog, canon>>

\* Lines 257-258: take mu for writing and read the ledger.
StoreLock(i) ==
    /\ reqs[i].pc = "store"
    /\ CanWLock(muWriter, muReaders)
    /\ muWriter' = i
    /\ reqs' = [reqs EXCEPT ![i].pc = "storeHeld", ![i].old = messages]
    /\ UNCHANGED <<clock, messages, seen, rateLimits, replayMu, rateMu,
                   muReaders, lists, admitLog, canon>>

\* The new message written over the newest entry.
Prepend_Overwrites(m, old) ==
    IF old = <<>> THEN <<m>> ELSE [old EXCEPT ![1] = m]

\* The new message put behind the others.
Prepend_AtEnd(m, old) == old \o <<m>>

\* append([]Message{m}, messages...)
Prepend(m, old) == <<m>> \o old

\* Lines 258-262: put the message in front, release mu, answer 200.
StoreAppend(i) ==
    /\ reqs[i].pc = "storeHeld"
    /\ muWriter' = Unlock(i)
    /\ messages' = Prepend(reqs[i].m, reqs[i].old)
    /\ admitLog' = Append(admitLog, [rid |-> i, m |-> reqs[i].m, gates |-> reqs[i].gates])
    /\ reqs' = [reqs EXCEPT ![i] = Finish([@ EXCEPT !.old = <<>>], "accepted")]
    /\ UNCHANGED <<clock, seen, rateLimits, replayMu, rateMu, muReaders, lists,
                   canon>>

----------------------------------------------------------------------------
(* /api/messages *)

\* Lines 130-134: a listing request arrives.
ListReceive ==
    /\ Len(lists) < MaxList
    /\ lists' = Append(lists, [pc |-> "rlock", out |-> <<>>, had |-> messages])
    /\ UNCHANGED <<clock, messages, seen, rateLimits, replayMu, rateMu, muWriter,
                   muReaders, reqs, admitLog, canon>>

\* Line 135.
ListRLock(j) ==
    /\ lists[j].pc = "rlock"
    /\ CanRLock(muWriter)
    /\ muReaders' = muReaders \cup {j}
    /\ lists' = [lists EXCEPT ![j].pc = "held"]
    /\ UNCHANGED <<clock, messages, seen, rateLimits, replayMu, rateMu, muWriter,
                   reqs, admitLog, canon>>

\* Lines 136-138: encode the ledger as it stands and release mu.
ListEncode(j) ==
    /\ lists[j].pc = "held"
    /\ muReaders' = muReaders \ {j}
    /\ lists' = [lists EXCEPT ![j].pc = "done", ![j].out = messages]
    /\ UNCHANGED <<clock, messages, seen, rateLimits, replayMu, rateMu, muWriter,
                   reqs, admitLog, canon>>

----------------------------------------------------------------------------
(* The clock *)

\* Time passes: `step` seconds at once.
Tick(step, max) ==
    /\ clock + step <= max
    /\ clock' = clock + step
    /\ UNCHANGED <<messages, seen, rateLimits, replayMu, rateMu, muWriter,
                   muReaders, reqs, lists, admitLog, canon>>

----------------------------------------------------------------------------
(* Specifications *)

Handle(i) ==
    \/ ReplayLock(i)
    \/ ReplayRecord(i)
    \/ RateLock(i)
    \/ RateUpdate(i)
    \/ VerifyStep(i)
    \/ StoreLock(i)
    \/ StoreAppend(i)

List(j) == ListRLock(j) \/ ListEncode(j)

Next ==
    \/ Receive(Submissions, MaxReq)
    \/ \E i \in DOMAIN reqs : Handle(i)
    \/ Tick(1, MaxClock)

\* Any clients, any interleaving.
Spec == Init /\ [][Next]_vars

NextQuota ==
    \/ Receive(QuotaSubmissions(Len(reqs) + 1), MaxQuotaReq)
    \/ \E i \in DOMAIN reqs : Handle(i)
    \/ Tick(RefillPeriod, MaxQuotaClock)

\* One device sending in a burst; time passes a refill period at once.
SpecQuota == Init /\ [][NextQuota]_vars

NextRefill ==
    \/ Receive({QuotaSub(Len(reqs) + 1)}, MaxQuotaReq)
    \/ \E i \in DOMAIN reqs : Handle(i)
    \/ Tick(RefillPeriod \div 2, MaxQuotaClock)

\* The same device, every submission a new one; time passes half a refill
\* period at once, so that a bucket holds fractions of a token.
SpecRefill == Init /\ [][NextRefill]_vars

NextList ==
    \/ Receive(ListSubmissions, MaxReq)
    \/ \E i \in DOMAIN reqs : Handle(i)
    \/ ListReceive
    \/ \E j \in DOMAIN lists : List(j)

\* Submissions and listings side by side.
SpecList == Init /\ [][NextList]_vars

NextBounds ==
    \/ Receive(BoundSubmissions, MaxReq)
    \/ \E i \in DOMAIN reqs : Handle(i)

\* Submissions around the length bounds.
SpecBounds == Init /\ [][NextBounds]_vars

NextAlgo ==
    \/ Receive(AlgoSubmissions, MaxReq)
    \/ \E i \in DOMAIN reqs : Handle(i)

\* Submissions that differ in the declared algorithm hint.
SpecAlgo == Init /\ [][NextAlgo]_vars

----------------------------------------------------------------------------
(* The canonicalization bench: two submissions' author, content and        *)
(* timestamp go through the handler's trimming and canonicalPayload.       *)

Alphabet == {"a", "LF"}

RECURSIVE Strings(_)
Strings(n) ==
    IF n = 0 THEN {<<>>}
    ELSE Strings(n - 1) \cup {Append(s, c) : s \in Strings(n - 1), c \in Alphabet}

Triples == [Author : Strings(MaxStrLen), Content : Strings(MaxStrLen), Timestamp : {0, 10}]

InitCanon ==
    /\ InitServer
    /\ \E a \in Triples, b \in Triples : canon = [NoCanon EXCEPT !.a = a, !.b = b]

Trimmed(t) == [t EXCEPT !.Author = TrimSpace(t.Author), !.Content = TrimSpace(t.Content)]

Canonicalize ==
    /\ ~canon.done
    /\ LET a == Trimmed(canon.a)
           b == Trimmed(canon.b)
       IN  canon' = [a |-> a, b |-> b, done |-> TRUE,
                     pa |-> canonicalPayload(a.Author, a.Content, a.Timestamp),
                     pb |-> canonicalPayload(b.Author, b.Content, b.Timestamp)]
    /\ UNCHANGED <<clock, messages, seen, rateLimits, replayMu, rateMu, muWriter,
                   muReaders, reqs, lists, admitLog>>

SpecCanon == InitCanon /\ [][Canonicalize]_vars

----------------------------------------------------------------------------
(* What the claims speak of *)

Done(r) == r.pc = "done"

Abs(n) == IF n < 0 THEN -n ELSE n

\* The submission's signature verifies for its public key over the canonical
\* payload of its author, content and timestamp.
SigValid(m) ==
    Verify(pubBytes(m), canonicalPayload(m.Author, m.Content, m.Timestamp), sigBytes(m))

\* The submission passes the structural and the size checks.
WellFormed(m) ==
    /\ m.Author # <<>> /\ Len(m.Author) <= maxAuthorLen
    /\ m.Content # <<>> /\ Len(m.Content) <= maxContentLen
    /\ m.PubKey.wellFormed /\ m.PubKey.bytes.size <= MaxKeyBytes
    /\ m.Signature.wellFormed /\ m.Signature.bytes.size <= MaxKeyBytes

\* The key is of one of the three ML-DSA levels.
SupportedKey(m) == pubBytes(m).size \in SupportedSizes /\ pubBytes(m).parses

\* A well-formed submission correctly signed under a supported key.
Proper(m) == WellFormed(m) /\ SupportedKey(m) /\ SigValid(m)

\* The same payload, signature and key.
Identical(m1, m2) ==
    /\ m1.Author = m2.Author /\ m1.Content = m2.Content /\ m1.Timestamp = m2.Timestamp
    /\ m1.Signature = m2.Signature /\ m1.PubKey = m2.PubKey

\* The request got past the freshness check, to the replay guard.
ReachedReplay(r) == WellFormed(r.m) /\ "fresh" \in r.gates

\* No client has sent anything but proper submissions.
HonestTraffic == \A i \in DOMAIN reqs : Proper(reqs[i].m)

Accepted == {i \in DOMAIN reqs : reqs[i].outcome = "accepted"}

----------------------------------------------------------------------------
(* C1 *)

\* C1: every entry of the ledger was appended by a request whose signature
\* verifies over the canonical payload of the entry, whose timestamp was within
\* the window when checked, whose (key, ts) pair was not in the replay table
\* when checked, and which allowDevice let pass.
C1_AdmissionSound ==
    /\ Len(admitLog) = Len(messages)
    /\ \A k \in DOMAIN messages :
         LET e == admitLog[Len(admitLog) + 1 - k]
         IN  /\ e.m = messages[k]
             /\ SigValid(messages[k])
             /\ {"fresh", "new", "quota"} \subseteq e.gates

C1_Witness ==
    /\ Len(messages) >= 1
    /\ \E i \in DOMAIN reqs : reqs[i].outcome = "invalid ML-DSA signature"
    /\ \E i \in DOMAIN reqs : reqs[i].outcome = "replay detected"

----------------------------------------------------------------------------
(* C2 *)

\* C2 as claimed, already among proper submissions only: a correctly signed
\* submission with a fresh timestamp is accepted, unless it is the identical
\* submission sent again, which is rejected as a replay; no submission is in
\* the ledger twice.
C2_AcceptedExactlyOnce ==
    HonestTraffic =>
      /\ \A i \in DOMAIN reqs :
           (Done(reqs[i]) /\ ReachedReplay(reqs[i])) =>
             \/ reqs[i].outcome = "accepted"
             \/ /\ reqs[i].outcome = "replay detected"
                /\ \E j \in DOMAIN reqs \ {i} :
                     /\ Identical(reqs[j].m, reqs[i].m)
                     /\ (reqs[j].outcome = "accepted" \/ ~Done(reqs[j]))
      /\ \A k, l \in DOMAIN messages : Identical(messages[k], messages[l]) => k = l

\* C2 amended: a proper, fresh submission is accepted, and appended once, when
\* its pair was not in the replay table at its check and allowDevice let it
\* pass; it is rejected as a replay when its pair was in the table; and the
\* pair of every ledger entry is in the table, no two entries sharing one.
C2_AcceptedOnceWhenNew ==
    /\ \A i \in DOMAIN reqs :
         (Done(reqs[i]) /\ Proper(reqs[i].m) /\ ReachedReplay(reqs[i])) =>
           /\ {"new", "quota"} \subseteq reqs[i].gates =>
                /\ reqs[i].outcome = "accepted"
                /\ Cardinality({k \in DOMAIN admitLog : admitLog[k].rid = i}) = 1
                /\ \E k \in DOMAIN messages : messages[k] = reqs[i].m
           /\ "new" \notin reqs[i].gates =>
                /\ reqs[i].outcome = "replay detected"
                /\ \A k \in DOMAIN admitLog : admitLog[k].rid # i
    /\ \A k \in DOMAIN messages : ReplayKey(messages[k]) \in seen
    /\ \A k, l \in DOMAIN messages :
         ReplayKey(messages[k]) = ReplayKey(messages[l]) => k = l

C2_Witness ==
    \E i, j \in DOMAIN reqs :
      /\ i < j
      /\ Proper(reqs[i].m)
      /\ Identical(reqs[i].m, reqs[j].m)
      /\ reqs[i].outcome = "accepted"
      /\ reqs[j].outcome = "replay detected"
      /\ Len(messages) = 1

----------------------------------------------------------------------------
(* C3 *)

\* Requests i < j for one (key, ts) pair, handled at the same time and both
\* answered.
Rivals(i, j) ==
    /\ i \in reqs[j].rivals
    /\ Done(reqs[i]) /\ Done(reqs[j])
    /\ ReachedReplay(reqs[i]) /\ ReachedReplay(reqs[j])

\* C3 as claimed, already among proper submissions only: of two validly signed
\* submissions with one (key, ts) pair handled concurrently, exactly one is
\* accepted and the other is rejected as a replay.
C3_ExactlyOneAccepted ==
    HonestTraffic =>
      \A j \in DOMAIN reqs : \A i \in 1..(j - 1) :
        Rivals(i, j) =>
          \/ reqs[i].outcome = "accepted" /\ reqs[j].outcome = "replay detected"
          \/ reqs[j].outcome = "accepted" /\ reqs[i].outcome = "replay detected"

\* C3 amended: of two submissions with one (key, ts) pair handled concurrently,
\* at least one is rejected as a replay, so at most one is accepted; the one
\* that found the pair new is accepted when it is proper and allowDevice let
\* it pass.
C3_AtMostOneAccepted ==
    \A j \in DOMAIN reqs : \A i \in 1..(j - 1) :
      Rivals(i, j) =>
        /\ reqs[i].outcome = "replay detected" \/ reqs[j].outcome = "replay detected"
        /\ ~(reqs[i].outcome = "accepted" /\ reqs[j].outcome = "accepted")
        /\ \A n \in {i, j} :
             (Proper(reqs[n].m) /\ {"new", "quota"} \subseteq reqs[n].gates)
               => reqs[n].outcome = "accepted"

\* The later of two concurrent proper submissions overtook the earlier one.
C3_Witness ==
    \E j \in DOMAIN reqs : \E i \in 1..(j - 1) :
      /\ Rivals(i, j)
      /\ Proper(reqs[i].m) /\ Proper(reqs[j].m)
      /\ reqs[j].outcome = "accepted"
      /\ reqs[i].outcome = "replay detected"

----------------------------------------------------------------------------
(* C4 *)

\* C4: every pair in the replay table is the pair of a submission whose
\* signature verifies under a supported key.
C4_ReplayTableAuthenticated ==
    \A key \in seen :
      \E i \in DOMAIN reqs :
        /\ ReplayKey(reqs[i].m) = key
        /\ SupportedKey(reqs[i].m)
        /\ SigValid(reqs[i].m)

----------------------------------------------------------------------------
(* C5 *)

\* The signature was made by the submission's key over the payload of the
\* same author and timestamp and another content.
ContentChanged(m) ==
    /\ sigBytes(m).signer = pubBytes(m).body
    /\ \E c \in {C, <<"d">>} \ {m.Content} :
         sigBytes(m).over = canonicalPayload(m.Author, c, m.Timestamp)

\* C5: a submission whose content was changed after signing, otherwise well
\* formed and fresh, is rejected as an invalid signature and as nothing else.
C5_TamperedIsInvalidSignature ==
    \A i \in DOMAIN reqs :
      (Done(reqs[i]) /\ ReachedReplay(reqs[i]) /\ SupportedKey(reqs[i].m)
         /\ ContentChanged(reqs[i].m))
        => reqs[i].outcome = "invalid ML-DSA signature"

----------------------------------------------------------------------------
(* C6 *)

\* The requests whose allowDevice call has returned, those of them made at
\* clock t, and those of a set that passed.
Called == {i \in DOMAIN reqs : reqs[i].now >= 0 /\ reqs[i].pc # "rateHeld"}

CalledAt(t) == {i \in Called : reqs[i].now = t}

Passed(S) == {i \in S : "quota" \in reqs[i].gates}

FirstCall == CHOOSE t \in {reqs[i].now : i \in Called} :
               \A i \in Called : t <= reqs[i].now

\* C6: of the calls a new device makes at one instant, the first maxTokens
\* pass and no more; once more than maxTokens were made, of the calls made a
\* refill period later exactly one passes.
C6_BurstIsMaxTokens ==
    Called # {} =>
      /\ Cardinality(Passed(CalledAt(FirstCall)))
           = Min(Cardinality(CalledAt(FirstCall)), maxTokens)
      /\ Cardinality(CalledAt(FirstCall)) > maxTokens =>
           Cardinality(Passed(CalledAt(FirstCall + RefillPeriod)))
             = Min(Cardinality(CalledAt(FirstCall + RefillPeriod)), 1)

----------------------------------------------------------------------------
(* C7 *)

ValidTriple(t) ==
    /\ t.Author # <<>> /\ TrimSpace(t.Author) = t.Author
    /\ t.Content # <<>> /\ TrimSpace(t.Content) = t.Content

\* C7: two triples that pass the structural validation and have the same
\* canonical payload are the same triple.
C7_CanonicalInjective ==
    (canon.done /\ ValidTriple(canon.a) /\ ValidTriple(canon.b) /\ canon.pa = canon.pb)
      => canon.a = canon.b

----------------------------------------------------------------------------
(* C8 *)

\* C8: a well-formed submission whose timestamp is more than FreshWindow ms
\* from the clock, either way, is answered "timestamp not fresh" on arrival,
\* whatever its signature, and that step leaves the replay table, the buckets
\* and the ledger as they are; such a request never reached the replay guard
\* or allowDevice.
C8_StaleRejectedFirst ==
    /\ [](\A i \in DOMAIN reqs :
            reqs[i].outcome = "timestamp not fresh" =>
              /\ reqs[i].gates = {} /\ reqs[i].now = -1 /\ reqs[i].invoked = {})
    /\ [][Len(reqs') > Len(reqs) =>
            LET r == reqs'[Len(reqs')]
            IN  (WellFormed(r.m) /\ Abs(NowMs - r.m.Timestamp) > FreshWindow) =>
                  /\ Done(r)
                  /\ r.outcome = "timestamp not fresh"
                  /\ seen' = seen
                  /\ rateLimits' = rateLimits
                  /\ messages' = messages]_vars

\* A properly signed submission behind the clock and one ahead of it were
\* both turned away, with the replay table in use.
C8_Witness ==
    /\ seen # {}
    /\ \E i, j \in DOMAIN reqs :
         /\ reqs[i].outcome = "timestamp not fresh"
         /\ reqs[j].outcome = "timestamp not fresh"
         /\ Proper(reqs[i].m) /\ Proper(reqs[j].m)
         /\ reqs[i].m.Timestamp < 0
         /\ reqs[j].m.Timestamp > 0

----------------------------------------------------------------------------
(* C9 *)

IsSuffix(s, t) ==
    /\ Len(s) <= Len(t)
    /\ \A k \in DOMAIN s : s[k] = t[Len(t) - Len(s) + k]

\* C9: the ledger is the accepted messages in the reverse of the order of
\* their append steps, each accepted request's once; a listing returns the
\* ledger of some moment at or after its arrival, so after N accepted
\* submissions it returns exactly those N.
C9_NewestFirstByCompletion ==
    /\ messages = [k \in 1..Len(admitLog) |-> admitLog[Len(admitLog) + 1 - k].m]
    /\ \A i \in DOMAIN reqs :
         Cardinality({k \in DOMAIN admitLog : admitLog[k].rid = i})
           = (IF i \in Accepted THEN 1 ELSE 0)
    /\ \A j \in DOMAIN lists :
         lists[j].pc = "done" =>
           /\ IsSuffix(lists[j].had, lists[j].out)
           /\ IsSuffix(lists[j].out, messages)

\* Three submissions were all accepted, the ledger's order is not the
\* arrival order, and a listing that came after them returned all three.
C9_Witness ==
    /\ Accepted = 1..MaxReq
    /\ \E k \in 1..(Len(admitLog) - 1) : admitLog[k].rid > admitLog[k + 1].rid
    /\ \E j \in DOMAIN lists :
         /\ lists[j].pc = "done"
         /\ Len(lists[j].had) = MaxReq
         /\ lists[j].out = messages

----------------------------------------------------------------------------
(* C10 *)

\* C10: a well-formed, fresh submission whose key has none of the three
\* ML-DSA key sizes is answered "unsupported ML-DSA level", and no ML-DSA
\* verification ran for it.
C10_UnsupportedKeySize ==
    \A i \in DOMAIN reqs :
      (Done(reqs[i]) /\ ReachedReplay(reqs[i])
         /\ pubBytes(reqs[i].m).size \notin SupportedSizes)
        => /\ reqs[i].outcome = "unsupported ML-DSA level"
           /\ "mldsa.Verify" \notin reqs[i].invoked

----------------------------------------------------------------------------
(* C11 *)

\* C11: a submission rejected with the quota-exceeded outcome has left no
\* entry in the replay table: its pair is in the table only if another
\* request with the pair put it there, and the same signed submission sent
\* again, no other request having used the pair, is not rejected as a replay.
C11_QuotaRejectionLeavesNoPair ==
    \A i \in DOMAIN reqs :
      reqs[i].outcome = "rate limit exceeded" =>
        /\ ReplayKey(reqs[i].m) \in seen =>
             \E j \in DOMAIN reqs \ {i} :
               /\ ReplayKey(reqs[j].m) = ReplayKey(reqs[i].m)
               /\ "new" \in reqs[j].gates
        /\ \A j \in DOMAIN reqs :
             (j > i /\ Identical(reqs[j].m, reqs[i].m) /\ Done(reqs[j])
                /\ \A k \in DOMAIN reqs \ {i, j} :
                     ReplayKey(reqs[k].m) # ReplayKey(reqs[i].m))
               => reqs[j].outcome # "replay detected"

----------------------------------------------------------------------------
(* C12 *)

\* C12: a request whose allowDevice call took a token off a bucket goes on to
\* append its message: no answered request that spent a token was rejected.
C12_TokenSpentOnlyByAccepted ==
    \A i \in DOMAIN reqs :
      (Done(reqs[i]) /\ reqs[i].spent) => reqs[i].outcome = "accepted"

----------------------------------------------------------------------------
(* C13 *)

\* C13: every step that changes the ledger is the append step of one
\* request: it puts that request's message at index 1 and leaves the earlier
\* entries behind it, unchanged and in the same order; so no step removes or
\* modifies an entry.
C13_GrowsAtFront ==
    [][messages' # messages =>
         \E i \in DOMAIN reqs :
           /\ reqs[i].pc = "storeHeld"
           /\ reqs'[i].outcome = "accepted"
           /\ messages' = <<reqs[i].m>> \o messages]_vars

\* Three appends have happened, of different messages.
C13_Witness ==
    /\ Len(messages) = 3
    /\ messages[1] # messages[2]
    /\ messages[2] # messages[3]

----------------------------------------------------------------------------
(* C14 *)

\* The same public key bytes and the same timestamp.
SamePair(m1, m2) == pubBytes(m1) = pubBytes(m2) /\ m1.Timestamp = m2.Timestamp

\* C14: once a submission is accepted, every other answered request carrying
\* its (key, ts) pair that got past the freshness check was rejected as a
\* replay, whatever user agent it declared; so no pair is in the ledger twice.
C14_ReplayWhateverUserAgent ==
    /\ \A i \in Accepted : \A j \in DOMAIN reqs \ {i} :
         (SamePair(reqs[i].m, reqs[j].m) /\ Done(reqs[j]) /\ ReachedReplay(reqs[j]))
           => reqs[j].outcome = "replay detected"
    /\ \A k, l \in DOMAIN messages : SamePair(messages[k], messages[l]) => k = l

\* The accepted payload was sent again under another user agent and refused.
C14_Witness ==
    \E i \in Accepted : \E j \in DOMAIN reqs :
      /\ j > i
      /\ Identical(reqs[i].m, reqs[j].m)
      /\ reqs[j].m.UserAgent # reqs[i].m.UserAgent
      /\ reqs[j].outcome = "replay detected"

----------------------------------------------------------------------------
(* C15 *)

\* The ledger with every algo field blanked.
HintFree(ledger) == [k \in DOMAIN ledger |-> WithHint(ledger[k], "")]

\* What request i's step decides, from the state it starts in, were its
\* submission `n` : the answer on arrival, the replay verdict and table, the
\* bucket charged and its new balance, the verification outcome, the ledger.
StepAgrees(i, n) ==
    /\ i \notin DOMAIN reqs =>
         /\ reqs'[i].outcome = PreCheck(n, NowMs)
         /\ UNCHANGED <<seen, rateLimits, messages>>
    /\ (i \in DOMAIN reqs /\ reqs[i].pc = "replay" /\ reqs'[i].pc = "replayHeld") =>
         reqs'[i].dup = (ReplayKey(n) \in seen)
    /\ (i \in DOMAIN reqs /\ reqs[i].pc = "replayHeld" /\ reqs'[i].pc # "replayHeld") =>
         /\ seen' = IF ReplayKey(n) \in seen THEN seen ELSE seen \cup {ReplayKey(n)}
         /\ (reqs'[i].outcome = "replay detected") = (ReplayKey(n) \in seen)
    /\ (i \in DOMAIN reqs /\ reqs[i].pc = "rateHeld" /\ reqs'[i].pc # "rateHeld") =>
         LET id == deviceIDFromUA(n.UserAgent)
             res == allowDevice(Bucket(rateLimits, id), reqs[i].now)
         IN  /\ DOMAIN rateLimits' = DOMAIN rateLimits \cup {id}
             /\ rateLimits'[id] = res.bucket
             /\ \A other \in DOMAIN rateLimits \ {id} :
                  rateLimits'[other] = rateLimits[other]
             /\ (reqs'[i].outcome = "rate limit exceeded") = ~res.ok
    /\ (i \in DOMAIN reqs /\ reqs[i].pc = "verify" /\ reqs'[i].pc # "verify") =>
         /\ reqs'[i].outcome = VerifyOutcome(n)
         /\ (reqs'[i].pc = "store") = (VerifyOutcome(n) = "")
    /\ (i \in DOMAIN reqs /\ reqs[i].pc = "storeHeld" /\ reqs'[i].pc # "storeHeld") =>
         /\ reqs'[i].outcome = "accepted"
         /\ HintFree(messages') = HintFree(<<n>> \o messages)
         /\ messages'[1].Algo = reqs[i].m.Algo

\* C15: in every step of every request, the answer and the new replay table,
\* buckets and ledger are those the step gives for the same submission with
\* any other algorithm hint, the stored message keeping its own hint; so two
\* runs that differ only in the hints go through the same outcomes and states.
C15_HintIgnored ==
    [][\A i \in DOMAIN reqs' : \A h \in Hints \cup {"ML-DSA-44", "ML-DSA-65"} :
         StepAgrees(i, WithHint(reqs'[i].m, h))]_vars

\* A submission under an ML-DSA-44 key that declares ML-DSA-87 was accepted
\* and stored with that hint, the same one with no hint was taken for a
\* replay, and one with a key of no level was refused under a hint naming one.
C15_Witness ==
    /\ \E i \in Accepted : \E j \in DOMAIN reqs :
         /\ reqs[i].m.Algo = "ML-DSA-87"
         /\ pubBytes(reqs[i].m).size = MLDSA44PublicKeySize
         /\ messages[Len(messages)].Algo = "ML-DSA-87"
         /\ reqs[j].m = WithHint(reqs[i].m, "")
         /\ reqs[j].outcome = "replay detected"
    /\ \E k \in DOMAIN reqs :
         /\ reqs[k].m.Algo = "ML-DSA-87"
         /\ reqs[k].outcome = "unsupported ML-DSA level"

----------------------------------------------------------------------------
(* C16 *)

\* The request fails the structural validation, the size bound or the
\* freshness check.
FailsEarly(r) == ~WellFormed(r.m) \/ "fresh" \notin r.gates

\* C16: a request that fails the structural validation, the size bound or the
\* freshness check is answered at once with one of the early errors and never
\* looked up the replay table or called allowDevice; every pair in the replay
\* table and every bucket comes from a request that passed all three.
C16_EarlyRejectTouchesNothing ==
    /\ \A i \in DOMAIN reqs :
         FailsEarly(reqs[i]) =>
           /\ Done(reqs[i])
           /\ reqs[i].outcome \in {"author/content required", "message too long",
                                   "invalid pubkey", "invalid signature",
                                   "timestamp not fresh"}
           /\ "new" \notin reqs[i].gates /\ "quota" \notin reqs[i].gates
           /\ reqs[i].now = -1 /\ ~reqs[i].spent /\ reqs[i].invoked = {}
    /\ \A key \in seen :
         \E i \in DOMAIN reqs : ReplayKey(reqs[i].m) = key /\ ~FailsEarly(reqs[i])
    /\ \A id \in DOMAIN rateLimits :
         \E i \in DOMAIN reqs :
           deviceIDFromUA(reqs[i].m.UserAgent) = id /\ ~FailsEarly(reqs[i])

\* A request of each kind was turned away, and the tables are still empty.
C16_Witness ==
    /\ \E i \in DOMAIN reqs : reqs[i].outcome = "message too long"
    /\ \E i \in DOMAIN reqs :
         reqs[i].outcome = "invalid pubkey" /\ pubBytes(reqs[i].m).size > MaxKeyBytes
    /\ \E i \in DOMAIN reqs : reqs[i].outcome = "timestamp not fresh"
    /\ seen = {}
    /\ DOMAIN rateLimits = {}

----------------------------------------------------------------------------
(* C17 *)

\* Quarter tokens credited per second: refillRate in the units of Tokens.
UnitsPerSecond == TokenUnit \div RefillPeriod

\* C17: the step in which allowDevice rejects a request leaves the bucket
\* with min(maxTokens, balance + elapsed * refillRate), the balance and the
\* elapsed time being those of the bucket as the step found it: no token is
\* taken and no credit is lost; and a bucket holding a whole token at the
\* time of a call never rejects it.
C17_RejectionKeepsCredit ==
    [][\A i \in DOMAIN reqs :
         (reqs[i].pc = "rateHeld" /\ reqs'[i].pc # "rateHeld") =>
           LET id == deviceIDFromUA(reqs[i].m.UserAgent)
               before == Bucket(rateLimits, id)
               credit == IF before = NoBucket THEN maxTokenUnits
                         ELSE Min(maxTokenUnits,
                                  before.Tokens
                                    + (reqs[i].now - before.LastRefill) * UnitsPerSecond)
           IN  /\ reqs'[i].outcome = "rate limit exceeded" =>
                    /\ rateLimits'[id].Tokens = credit
                    /\ rateLimits'[id].LastRefill = reqs[i].now
               /\ credit >= TokenUnit => reqs'[i].outcome # "rate limit exceeded"]_vars

\* The device was refused with an empty bucket, refused again half a refill
\* period later, the bucket then holding half a token, and let through
\* another half period later.
C17_Witness ==
    \E i, j, k \in DOMAIN reqs :
      /\ reqs[i].outcome = "rate limit exceeded" /\ reqs[i].now = 0
      /\ reqs[j].outcome = "rate limit exceeded" /\ reqs[j].now = RefillPeriod \div 2
      /\ "quota" \in reqs[k].gates /\ reqs[k].now = RefillPeriod
      /\ reqs[k].spent

----------------------------------------------------------------------------
(* C18 *)

\* The requests that took a token at clock t.
SpentAt(t) == {i \in DOMAIN reqs : reqs[i].spent /\ reqs[i].now = t}

\* C18: allowDevice calls take effect one at a time: at most one request is
\* inside allowDevice; the step that ends a call leaves the bucket and the
\* verdict that allowDevice gives for the bucket as that step finds it, and
\* changes no bucket otherwise; so no token is spent twice: the tokens taken
\* at the time of the latest call and the balance left never exceed
\* maxTokens, and all tokens taken and the balance never exceed maxTokens
\* and the refill since the first call.
C18_AllowDeviceAtomic ==
    /\ [](Cardinality({i \in DOMAIN reqs : reqs[i].pc = "rateHeld"}) <= 1)
    /\ [](\A id \in DOMAIN rateLimits :
            LET b == rateLimits[id]
                users == {i \in DOMAIN reqs : deviceIDFromUA(reqs[i].m.UserAgent) = id}
            IN  /\ Cardinality(SpentAt(b.LastRefill) \cap users) * TokenUnit + b.Tokens
                     <= maxTokenUnits
                /\ Cardinality({i \in users : reqs[i].spent}) * TokenUnit + b.Tokens
                     <= maxTokenUnits + (b.LastRefill - FirstCall) * UnitsPerSecond)
    /\ [][\A i \in DOMAIN reqs :
            (reqs[i].pc = "rateHeld" /\ reqs'[i].pc # "rateHeld") =>
              LET id == deviceIDFromUA(reqs[i].m.UserAgent)
                  res == allowDevice(Bucket(rateLimits, id), reqs[i].now)
              IN  /\ rateLimits'[id] = res.bucket
                  /\ ("quota" \in reqs'[i].gates) = res.ok
                  /\ (reqs'[i].outcome = "rate limit exceeded") = ~res.ok
                  /\ \A other \in DOMAIN rateLimits \ {id} :
                       rateLimits'[other] = rateLimits[other]]_vars

\* Two requests were inside the handler at once when the bucket held its
\* last token: one took it and is still being handled, the other was refused
\* at the same clock.
C18_Witness ==
    \E i, j \in DOMAIN reqs :
      /\ reqs[i].pc = "verify" /\ reqs[i].spent
      /\ reqs[j].outcome = "rate limit exceeded"
      /\ reqs[j].now = reqs[i].now
      /\ Cardinality(SpentAt(reqs[i].now)) = maxTokens
      /\ Bucket(rateLimits, deviceIDFromUA(reqs[i].m.UserAgent)).Tokens = 0

----------------------------------------------------------------------------
(* C19 *)

\* C19: a step changes or creates a bucket only as the end of the
\* allowDevice call of a request, and then the bucket of that request's
\* declared user agent and no other; the buckets are those of the user agents
\* of the requests whose call has returned, one per user agent, whatever
\* their public keys.
C19_BucketByUserAgentOnly ==
    /\ [](DOMAIN rateLimits = {deviceIDFromUA(reqs[i].m.UserAgent) : i \in Called})
    /\ [](\A i, j \in Called :
            (reqs[i].m.UserAgent = reqs[j].m.UserAgent)
              = (deviceIDFromUA(reqs[i].m.UserAgent) = deviceIDFromUA(reqs[j].m.UserAgent)))
    /\ [][\A id \in DOMAIN rateLimits' :
            Bucket(rateLimits, id) # rateLimits'[id] =>
              \E i \in DOMAIN reqs :
                /\ reqs[i].pc = "rateHeld" /\ reqs'[i].pc # "rateHeld"
                /\ deviceIDFromUA(reqs[i].m.UserAgent) = id]_vars

\* Two submissions under different keys and one user agent drew from one
\* bucket, the second taking a token from it, and a third under another user
\* agent has a bucket of its own, still full.
C19_Witness ==
    \E i, j, k \in Called :
      /\ reqs[i].m.UserAgent = "ua1" /\ reqs[j].m.UserAgent = "ua1"
      /\ reqs[k].m.UserAgent = "ua2"
      /\ pubBytes(reqs[i].m) # pubBytes(reqs[j].m)
      /\ reqs[j].spent
      /\ rateLimits[deviceIDFromUA("ua1")].Tokens = maxTokenUnits - TokenUnit
      /\ rateLimits[deviceIDFromUA("ua2")].Tokens = maxTokenUnits

----------------------------------------------------------------------------
(* C20 *)

\* The ledger as it was after the first n appends.
LedgerAfter(n) == [k \in 1..n |-> admitLog[n + 1 - k].m]

\* C20: at most one request is in its append step, and no listing reads
\* while one is; a finished listing returned the ledger as it stood after
\* some number of whole appends, no fewer than had happened when it arrived
\* and no more than have happened: every entry it shows is a whole accepted
\* message.
C20_ListingIsSnapshot ==
    /\ Cardinality({i \in DOMAIN reqs : reqs[i].pc = "storeHeld"}) <= 1
    /\ (\E i \in DOMAIN reqs : reqs[i].pc = "storeHeld") =>
         /\ muReaders = {}
         /\ \A j \in DOMAIN lists : lists[j].pc # "held"
    /\ \A j \in DOMAIN lists :
         lists[j].pc = "done" =>
           \E n \in Len(lists[j].had)..Len(admitLog) : lists[j].out = LedgerAfter(n)

\* A listing that arrived after the first append and read before the third
\* shows two entries.
C20_Witness ==
    \E j \in DOMAIN lists :
      /\ lists[j].pc = "done"
      /\ Len(lists[j].had) = 1
      /\ Len(lists[j].out) = 2
      /\ Len(messages) = 3

----------------------------------------------------------------------------
(* C21 *)

\* The locks request i holds.
LocksHeld(i) ==
    (IF replayMu = i THEN {"replayMu"} ELSE {})
      \cup (IF rateMu = i THEN {"rateMu"} ELSE {})
      \cup (IF muWriter = i THEN {"mu"} ELSE {})

\* C21: a request that is at canonicalization and verification holds none of
\* replayMu, rateMu and mu; a request is between the lookup and the write of
\* the replay table, of its bucket, of the ledger exactly while it holds
\* replayMu, rateMu, mu; a listing reads the ledger holding mu for reading;
\* and every step that changes one of the three is taken by the holder of
\* its lock.
C21_LockDiscipline ==
    /\ [](\A i \in DOMAIN reqs :
            /\ reqs[i].pc = "verify" => LocksHeld(i) = {}
            /\ (reqs[i].pc = "replayHeld") = (replayMu = i)
            /\ (reqs[i].pc = "rateHeld") = (rateMu = i)
            /\ (reqs[i].pc = "storeHeld") = (muWriter = i))
    /\ [](\A j \in DOMAIN lists : (lists[j].pc = "held") = (j \in muReaders))
    /\ [][/\ seen' # seen => replayMu \in DOMAIN reqs /\ replayMu' # replayMu
          /\ rateLimits' # rateLimits => rateMu \in DOMAIN reqs /\ rateMu' # rateMu
          /\ messages' # messages => muWriter \in DOMAIN reqs /\ muWriter' # muWriter
          /\ \A j \in DOMAIN lists :
               (lists'[j].pc = "done" /\ lists[j].pc # "done") => j \in muReaders]_vars

\* One request is verifying while another holds replayMu.
C21_Witness ==
    \E i, j \in DOMAIN reqs :
      /\ reqs[i].pc = "verify"
      /\ reqs[j].pc = "replayHeld"
      /\ replayMu = j

----------------------------------------------------------------------------
(* C22 *)

\* Not empty, no white space at either end, at most max long.
CleanField(s, max) ==
    /\ s # <<>>
    /\ s[1] \notin Space
    /\ s[Len(s)] \notin Space
    /\ Len(s) <= max

\* C22: every message in the ledger has an author and a content that are
\* not empty, have no white space at either end, and are at most
\* maxAuthorLen and maxContentLen long.
C22_StoredFieldsClean ==
    \A k \in DOMAIN messages :
      /\ CleanField(messages[k].Author, maxAuthorLen)
      /\ CleanField(messages[k].Content, maxContentLen)

\* The ledger holds an author of the full length that was sent with white
\* space around it, a content of the full length, and an over-long author
\* was refused.
C22_Witness ==
    /\ \E k \in DOMAIN messages :
         /\ Len(messages[k].Author) = maxAuthorLen
         /\ pubBytes(messages[k]) = K87
    /\ \E k \in DOMAIN messages : Len(messages[k].Content) = maxContentLen
    /\ \E i \in DOMAIN reqs : reqs[i].outcome = "message too long"

----------------------------------------------------------------------------
(* C23 *)

\* C23: every bucket's balance is at least 0 and at most maxTokens, and its
\* last refill is not ahead of the clock.
C23_TokensWithinBounds ==
    \A id \in DOMAIN rateLimits :
      /\ rateLimits[id].Tokens >= 0
      /\ rateLimits[id].Tokens <= maxTokenUnits
      /\ rateLimits[id].LastRefill >= 0
      /\ rateLimits[id].LastRefill <= clock

\* The bucket was emptied, a request was refused at once and another half a
\* refill period later, and the bucket now holds half a token.
C23_Witness ==
    /\ \E i, j \in DOMAIN reqs :
         /\ reqs[i].outcome = "rate limit exceeded" /\ reqs[i].now = 0
         /\ reqs[j].outcome = "rate limit exceeded" /\ reqs[j].now > 0
    /\ \E id \in DOMAIN rateLimits :
         /\ rateLimits[id].Tokens > 0
         /\ rateLimits[id].Tokens < TokenUnit

----------------------------------------------------------------------------
(* C24 *)

\* The (public key, timestamp) pairs of the ledger.
LedgerPairs == {<<pubBytes(messages[k]), messages[k].Timestamp>> : k \in DOMAIN messages}

\* C24: the ledger has as many (public key, timestamp) pairs as entries, and
\* for each entry the replay table holds the hex of its key with its
\* timestamp.
C24_LedgerPairsUniqueAndRecorded ==
    /\ Cardinality(LedgerPairs) = Len(messages)
    /\ \A k \in DOMAIN messages :
         <<HexEncode(pubBytes(messages[k])), messages[k].Timestamp>> \in seen

\* Two requests with one pair were handled at the same time, one was
\* accepted and one refused, and the ledger holds a second entry under
\* another key.
C24_Witness ==
    /\ Len(messages) = 2
    /\ \E j \in DOMAIN reqs : \E i \in reqs[j].rivals :
         /\ SamePair(reqs[i].m, reqs[j].m)
         /\ {reqs[i].outcome, reqs[j].outcome} = {"accepted", "replay detected"}

----------------------------------------------------------------------------
(* C25 *)

\* Submissions and listings side by side, every handler goroutine that can
\* take a step eventually taking one: the Go scheduler runs every runnable
\* goroutine, and a goroutine waiting for a free lock gets it.
SpecLive ==
    /\ Init
    /\ [][NextList]_vars
    /\ \A i \in 1..MaxReq : WF_vars(i \in DOMAIN reqs /\ Handle(i))
    /\ \A j \in 1..MaxList : WF_vars(j \in DOMAIN lists /\ List(j))

\* The locks a listing holds: mu for reading, or none.
ListLocksHeld(j) == IF j \in muReaders THEN {"mu"} ELSE {}

\* The ledger admissions made by request i.
Admissions(i) == {k \in DOMAIN admitLog : admitLog[k].rid = i}

\* C25: no handler holds more than one of replayMu, rateMu and mu at a time;
\* every submission that arrived is eventually done and every listing that
\* arrived is eventually answered; a submission has an outcome exactly when
\* it is done, the outcome never changes afterwards, and it made one ledger
\* admission if the outcome is "accepted" and none otherwise.
C25_OneLockAndCompletion ==
    /\ [](\A i \in DOMAIN reqs : Cardinality(LocksHeld(i)) <= 1)
    /\ [](\A j \in DOMAIN lists : Cardinality(ListLocksHeld(j)) <= 1)
    /\ [](\A i \in DOMAIN reqs :
            /\ Done(reqs[i]) = (reqs[i].outcome # "")
            /\ Cardinality(Admissions(i)) = IF reqs[i].outcome = "accepted" THEN 1 ELSE 0)
    /\ [][\A i \in DOMAIN reqs : Done(reqs[i]) => reqs'[i].outcome = reqs[i].outcome]_vars
    /\ \A i \in 1..MaxReq :
         (i \in DOMAIN reqs) ~> (i \in DOMAIN reqs /\ Done(reqs[i]))
    /\ \A j \in 1..MaxList :
         (j \in DOMAIN lists) ~> (j \in DOMAIN lists /\ lists[j].pc = "done")

\* Every submission and the listing are done, one submission was accepted
\* and one refused after it had waited for a lock another one held, and all
\* locks are free.
C25_Witness ==
    /\ Len(reqs) = MaxReq /\ \A i \in DOMAIN reqs : Done(reqs[i])
    /\ Len(lists) = MaxList /\ \A j \in DOMAIN lists : lists[j].pc = "done"
    /\ \E i, k \in DOMAIN reqs :
         /\ reqs[i].outcome = "accepted"
         /\ reqs[k].outcome \notin {"", "accepted"}
         /\ i \in reqs[k].rivals
    /\ replayMu = 0 /\ rateMu = 0 /\ muWriter = 0 /\ muReaders = {}

====
